---------------------------- MODULE Spec2Model ----------------------------
(***************************************************************************)
(* Model of the WanderMint travel backend (functions/index.js and          *)
(* functions/schemas.js): schema and cross-field validation, calendar-date  *)
(* normalisation, the per-identity daily rate limiter of submitTrip, and    *)
(* the trip document life cycle driven by processNewTrip.                   *)
(*                                                                         *)
(* Six specifications share the definitions:                               *)
(*   Spec      submitTrip invocations racing on the userSubmissions and     *)
(*             trips collections, store calls that can fail, and a clock    *)
(*             that crosses midnight, started from the states a day of      *)
(*             sequential admissions leaves behind;                         *)
(*   SpecSeq   submitTrip invocations handled one at a time with no store   *)
(*             failure, from the empty store;                               *)
(*   SpecVal   the pure validators and the date normaliser applied to       *)
(*             inputs drawn from bounded sets;                              *)
(*   SpecTrip  processNewTrip and its notification collaborator acting on   *)
(*             admitted trip documents.                                     *)
(*   SpecApi   submitTrip and updateTripRecommendation, one submission at   *)
(*             a time, on bodies that differ in group size, dates and       *)
(*             destinations;                                                *)
(*   SpecStale submitTrip invocations of one identity two short of the      *)
(*             daily limit, racing with no store failure.                   *)
(*                                                                         *)
(* Time is counted in minutes since the epoch; a calendar day is a day      *)
(* number since the epoch.                                                  *)
(***************************************************************************)
EXTENDS Integers, Sequences, FiniteSets, TLC

VARIABLES
    \* ---- the store and the clock
    now,              \* server clock, as a day number offset (0 = first day)
    userSubmissions,  \* collection userSubmissions: uid -> RateLimitRecord
    trips,            \* collection trips: trip id -> trip document
    \* ---- submitTrip invocations
    inv,              \* slot -> state of the invocation running in it
    request,          \* the HTTP request the latest step received, if any
    response,         \* the HTTP response the latest step sent, if it sent one
    started,          \* submissions that went on to the rate limit check
    rejection,        \* the day of each identity's latest 429, and the slots
                      \* whose invocation began after one on its own day
    \* ---- processNewTrip invocations
    pnt,              \* trip id -> state of its creation trigger
    sendGrid,         \* SENDGRID_API_KEY, the module variable sgMail, and what
                      \* initSendGrid has done to the mail client so far
    \* ---- pure-function harness
    lenientDays,      \* the engine's Date.parse accepts day 29..31 in any month
    data,             \* envelope handed to validateTripSubmissionData
    recommendation,   \* envelope handed to validateRecommendationData
    validation,       \* the last ValidationResult returned
    revalidation,     \* the result of validating the same envelope once more
    ajvErrors,        \* the errors property of the two compiled validators
    dateString,       \* date string handed to the date normalisation
    instant,          \* the last instant produced by date normalisation
    tzOffset,         \* offset (minutes) at which the instant is rendered
    rendered          \* calendar day rendered back from the instant

vars == <<now, userSubmissions, trips, inv, request, response, started,
          rejection, pnt, sendGrid, lenientDays, data, recommendation, validation, revalidation,
          ajvErrors, dateString, instant, tzOffset, rendered>>

storeVars == <<now, userSubmissions, trips, inv, request, response, started,
               rejection>>
pureVars  == <<data, recommendation, validation, revalidation, ajvErrors,
               dateString, instant, tzOffset, rendered>>

-----------------------------------------------------------------------------
(* Calendar arithmetic of the ECMAScript Date object.                       *)

MinutesPerDay == 24 * 60

IsLeapYear(y) == (y % 4 = 0 /\ y % 100 # 0) \/ y % 400 = 0

DaysInMonth(y, m) ==
    IF m = 2 THEN (IF IsLeapYear(y) THEN 29 ELSE 28)
    ELSE IF m \in {4, 6, 9, 11} THEN 30 ELSE 31

\* Day number of January 1st of year y (ECMAScript DayFromYear).
DayFromYear(y) ==
    365 * (y - 1970) + ((y - 1969) \div 4) - ((y - 1901) \div 100)
        + ((y - 1601) \div 400)

RECURSIVE DaysBeforeMonth(_, _)
\* Days of year y before month index m0 (0 = January).
DaysBeforeMonth(y, m0) ==
    IF m0 = 0 THEN 0 ELSE DaysBeforeMonth(y, m0 - 1) + DaysInMonth(y, m0)

\* ECMAScript MakeDay: month index and day of month may be out of range and
\* roll over into the neighbouring months and years.
MakeDay(year, month0, date) ==
    LET ym == year + (month0 \div 12)
        mn == month0 % 12
    IN  DayFromYear(ym) + DaysBeforeMonth(ym, mn) + date - 1

\* Date.UTC(year, month0, day, hours, 0, 0), in minutes since the epoch.
DateUTC(year, month0, day, hours) ==
    MakeDay(year, month0, day) * MinutesPerDay + hours * 60

\* Years a rendered day can fall in.
YearRange == 2022 .. 2027

YearFromDay(n) ==
    CHOOSE y \in YearRange : DayFromYear(y) <= n /\ n < DayFromYear(y + 1)

\* The calendar day <<year, month, day>> of day number n.
DateFromDay(n) ==
    LET y  == YearFromDay(n)
        r  == n - DayFromYear(y)
        m0 == CHOOSE k \in 0 .. 11 :
                 DaysBeforeMonth(y, k) <= r /\ r < DaysBeforeMonth(y, k + 1)
    IN  <<y, m0 + 1, r - DaysBeforeMonth(y, m0) + 1>>

\* The calendar day an instant shows in a zone `offset` minutes east of UTC
\* (Date.prototype.toLocaleDateString in that zone).
toLocaleDateString(t, offset) == DateFromDay((t + offset) \div MinutesPerDay)


-----------------------------------------------------------------------------
(* Envelope values.  A string is a sequence of one-character strings; a     *)
(* field is a tagged value whose kind says which JSON type it carries       *)
(* ("absent" when the property is missing).                                 *)

\* Bounds of the input space.
MaxItems  == 6     \* longest destinations array drawn (one beyond the schema's 5)
MaxStrLen == 2     \* longest destination string drawn

Chars == {"a", " ", "<"}

Strs == UNION {[1 .. n -> Chars] : n \in 0 .. MaxStrLen}

\* A date string.  pat says whether it matches ^\d{4}-\d{2}-\d{2}$; y, m, d
\* are the numbers its three digit groups spell.
DateStr(y, m, d) == [kind |-> "string", pat |-> TRUE, y |-> y, m |-> m, d |-> d]
AbsentDate == [kind |-> "absent", pat |-> FALSE, y |-> 0, m |-> 0, d |-> 0]

\* The string names a day that exists in the calendar.
IsCalendarDate(s) ==
    s.kind = "string" /\ s.pat /\ s.m \in 1 .. 12 /\ s.d \in 1 .. DaysInMonth(s.y, s.m)

\* Lexicographic order of two pattern-conforming date strings, which is the
\* order of the <<year, month, day>> triples they spell.
DateStrLess(a, b) ==
    \/ a.y < b.y
    \/ a.y = b.y /\ a.m < b.m
    \/ a.y = b.y /\ a.m = b.m /\ a.d < b.d

\* A JavaScript Date: an Invalid Date has valid = FALSE (its time value is NaN).
InvalidDate == [valid |-> FALSE, time |-> 0]

\* new Date(string).  A date-only ISO string is UTC midnight of that day; a
\* month outside 1..12 or a day outside 1..31 gives an Invalid Date.  For a
\* day 29..31 that the month does not have, engines differ: V8 rolls the
\* date over into the next month (lenientDays), others give an Invalid Date.
\* A string in another format goes through the engine's legacy parser, which
\* reads it as midnight of the day it names when that day exists.
NewDate(s) ==
    IF s.kind # "string" THEN InvalidDate
    ELSE IF ~s.pat
         THEN IF s.m \in 1 .. 12 /\ s.d \in 1 .. DaysInMonth(s.y, s.m)
              THEN [valid |-> TRUE, time |-> MakeDay(s.y, s.m - 1, s.d) * MinutesPerDay]
              ELSE InvalidDate
    ELSE IF s.m \in 1 .. 12 /\ s.d >= 1
            /\ s.d <= (IF lenientDays THEN 31 ELSE DaysInMonth(s.y, s.m))
         THEN [valid |-> TRUE, time |-> MakeDay(s.y, s.m - 1, s.d) * MinutesPerDay]
         ELSE InvalidDate

\* a <= b on two Dates: the comparison of their time values; false when
\* either is NaN.
DateLessEq(a, b) == a.valid /\ b.valid /\ a.time <= b.time

\* JavaScript truthiness of a field holding a string.
Truthy(f) == f.kind # "absent"

-----------------------------------------------------------------------------
(* Structural validation: the two compiled Ajv validators.  With allErrors  *)
(* every violated keyword yields one error; an error is reported as         *)
(* [field, message] with field = instancePath || params.missingProperty.    *)

\* Program constants of tripSubmissionSchema and the recommendation schema.
MinDestinations == 1
MaxDestinations == 5
MinGroupSize    == 1
MaxGroupSize    == 20
MaxDestLength   == 100

\* The travel-style vocabulary the shared schema package declares; the
\* repository's tests submit "Comfortable" as a member.
travelStyleSchema == {"Comfortable"}

Err(field, message) == [field |-> field, message |-> message]

Idx(i) == ToString(i - 1)

RECURSIVE Concat(_)
\* The concatenation of a sequence of sequences.
Concat(ss) == IF ss = <<>> THEN <<>> ELSE Head(ss) \o Concat(Tail(ss))

\* `required` stopping at the first missing property, as without allErrors.
RequiredErrorsFirstOnly(obj, names) ==
    LET missing == {i \in 1 .. Len(names) : obj[names[i]].kind = "absent"}
    IN  IF missing = {} THEN <<>>
        ELSE LET first == CHOOSE i \in missing : \A j \in missing : i <= j
             IN  <<Err(names[first], "must have required property '" \o names[first] \o "'")>>

\* `required`: one error per missing property, in the order of the keyword's
\* array.
RequiredErrors(obj, names) ==
    Concat([i \in 1 .. Len(names) |->
        IF obj[names[i]].kind = "absent"
        THEN <<Err(names[i], "must have required property '" \o names[i] \o "'")>>
        ELSE <<>>])

\* A date property checked for its type only, without the pattern keyword.
DatePropErrorsTypeOnly(path, f) ==
    IF f.kind = "absent" THEN <<>>
    ELSE IF f.kind # "string" THEN <<Err(path, "must be string")>>
    ELSE <<>>

\* A property holding a YYYY-MM-DD string ({type: string, pattern}).
DatePropErrors(path, f) ==
    IF f.kind = "absent" THEN <<>>
    ELSE IF f.kind # "string" THEN <<Err(path, "must be string")>>
    ELSE IF ~f.pat THEN <<Err(path, "must match pattern")>>
    ELSE <<>>

\* tripSubmissionSchema.destinations with the upper cardinality keyword
\* excluding its own limit (an exclusive maximum where maxItems is inclusive).
DestinationsErrorsExclusiveMax(f) ==
    IF f.kind = "absent" THEN <<>>
    ELSE IF f.kind # "array" THEN <<Err("/destinations", "must be array")>>
    ELSE (IF Len(f.items) >= MaxDestinations
          THEN <<Err("/destinations", "must NOT have more than 5 items")>>
          ELSE <<>>)
      \o (IF Len(f.items) < MinDestinations
          THEN <<Err("/destinations", "must NOT have fewer than 1 items")>>
          ELSE <<>>)

\* tripSubmissionSchema.destinations: array of 1..5 strings of 1..100 chars.
DestinationsErrors(f) ==
    IF f.kind = "absent" THEN <<>>
    ELSE IF f.kind # "array" THEN <<Err("/destinations", "must be array")>>
    ELSE (IF Len(f.items) > MaxDestinations
          THEN <<Err("/destinations", "must NOT have more than 5 items")>>
          ELSE <<>>)
      \o (IF Len(f.items) < MinDestinations
          THEN <<Err("/destinations", "must NOT have fewer than 1 items")>>
          ELSE <<>>)
      \o Concat([i \in 1 .. Len(f.items) |->
            (IF Len(f.items[i]) > MaxDestLength
             THEN <<Err("/destinations/" \o Idx(i), "must NOT have more than 100 characters")>>
             ELSE <<>>)
            \o (IF Len(f.items[i]) < 1
                THEN <<Err("/destinations/" \o Idx(i), "must NOT have fewer than 1 characters")>>
                ELSE <<>>)])

\* tripSubmissionSchema.travelStyle: $ref travel-style.schema.json.
TravelStyleErrors(f) ==
    IF f.kind = "absent" THEN <<>>
    ELSE IF f.kind # "string" THEN <<Err("/travelStyle", "must be string")>>
    ELSE IF f.s \notin travelStyleSchema
         THEN <<Err("/travelStyle", "must be equal to one of the allowed values")>>
    ELSE <<>>

\* tripSubmissionSchema.groupSize with the maximum excluding its own limit.
GroupSizeErrorsExclusiveMax(f) ==
    IF f.kind = "absent" THEN <<>>
    ELSE IF f.kind # "integer" THEN <<Err("/groupSize", "must be integer")>>
    ELSE (IF f.n >= MaxGroupSize THEN <<Err("/groupSize", "must be <= 20")>> ELSE <<>>)
      \o (IF f.n < MinGroupSize THEN <<Err("/groupSize", "must be >= 1")>> ELSE <<>>)

\* tripSubmissionSchema.groupSize: integer in 1..20.
GroupSizeErrors(f) ==
    IF f.kind = "absent" THEN <<>>
    ELSE IF f.kind # "integer" THEN <<Err("/groupSize", "must be integer")>>
    ELSE (IF f.n > MaxGroupSize THEN <<Err("/groupSize", "must be <= 20")>> ELSE <<>>)
      \o (IF f.n < MinGroupSize THEN <<Err("/groupSize", "must be >= 1")>> ELSE <<>>)

\* tripSubmissionSchema.flexibleDates: boolean.
FlexibleDatesErrors(f) ==
    IF f.kind \in {"absent", "boolean"} THEN <<>>
    ELSE <<Err("/flexibleDates", "must be boolean")>>

TripRequired == <<"destinations", "startDate", "endDate", "travelStyle", "groupSize">>

\* validateTripSubmission.errors after validateTripSubmission(d): empty iff
\* the call returned true.
ValidateTripSubmissionErrors(d) ==
    RequiredErrors(d, TripRequired)
      \o DestinationsErrors(d.destinations)
      \o DatePropErrors("/startDate", d.startDate)
      \o DatePropErrors("/endDate", d.endDate)
      \o TravelStyleErrors(d.travelStyle)
      \o GroupSizeErrors(d.groupSize)
      \o FlexibleDatesErrors(d.flexibleDates)

\* useDefaults: validating fills a missing flexibleDates with the schema's
\* default, in the caller's object.
ApplyTripDefaults(d) ==
    IF d.flexibleDates.kind = "absent"
    THEN [d EXCEPT !.flexibleDates = [kind |-> "boolean", b |-> FALSE]]
    ELSE d

\* The additionalProperties keyword at the root of the two schemas: true in
\* tripSubmissionSchema; destinationRecommendationSchema does not have it.
tripAdditionalProperties == "true"
recommendationAdditionalProperties == "absent"

\* removeAdditional: true.  Ajv deletes the properties a schema does not
\* declare only where the schema says additionalProperties: false; it
\* reports no error for them.  An envelope carries its undeclared properties
\* in the field `extra`.
removeAdditional(additionalProperties, obj) ==
    IF additionalProperties = "false"
    THEN [obj EXCEPT !.extra = [kind |-> "absent", s |-> ""]]
    ELSE obj

\* A compiled validator whose errors property grows from call to call.
AssignErrorsAccumulating(previous, found) == previous \o found

\* A compiled validator assigns the errors of the call to its errors
\* property (null, here <<>>, when there is none) on every call.
AssignErrors(previous, found) == found

-----------------------------------------------------------------------------
(* destinationRecommendationSchema.  The nested logistics and totalCost     *)
(* objects are carried as [kind, ok]: ok says their content satisfies the   *)
(* sub-schema.                                                              *)

MaxNights == 90

RecRequired == <<"id", "tripOverview", "destinations", "logistics", "totalCost">>
DestRequired == <<"id", "cityName", "arrivalDate", "departureDate", "numberOfNights">>

StringPropErrors(path, f, minLength) ==
    IF f.kind = "absent" THEN <<>>
    ELSE IF f.kind # "string" THEN <<Err(path, "must be string")>>
    ELSE IF Len(f.s) < minLength THEN <<Err(path, "must NOT have fewer than 1 characters")>>
    ELSE <<>>

ObjectPropErrors(path, f) ==
    IF f.kind = "absent" THEN <<>>
    ELSE IF f.kind # "object" THEN <<Err(path, "must be object")>>
    ELSE IF ~f.ok THEN <<Err(path, "must have required property")>>
    ELSE <<>>

NightsErrors(path, f) ==
    IF f.kind = "absent" THEN <<>>
    ELSE IF f.kind # "integer" THEN <<Err(path, "must be integer")>>
    ELSE (IF f.n > MaxNights THEN <<Err(path, "must be <= 90")>> ELSE <<>>)
      \o (IF f.n < 1 THEN <<Err(path, "must be >= 1")>> ELSE <<>>)

\* One item of recommendation.destinations.
RecDestinationErrors(path, dest) ==
    RequiredErrors(dest, DestRequired)
      \o StringPropErrors(path \o "/id", dest.id, 0)
      \o StringPropErrors(path \o "/cityName", dest.cityName, 1)
      \o DatePropErrors(path \o "/arrivalDate", dest.arrivalDate)
      \o DatePropErrors(path \o "/departureDate", dest.departureDate)
      \o NightsErrors(path \o "/numberOfNights", dest.numberOfNights)

RecDestinationsErrors(f) ==
    IF f.kind = "absent" THEN <<>>
    ELSE IF f.kind # "array" THEN <<Err("/destinations", "must be array")>>
    ELSE (IF Len(f.items) > MaxDestinations
          THEN <<Err("/destinations", "must NOT have more than 5 items")>>
          ELSE <<>>)
      \o (IF Len(f.items) < MinDestinations
          THEN <<Err("/destinations", "must NOT have fewer than 1 items")>>
          ELSE <<>>)
      \o Concat([i \in 1 .. Len(f.items) |->
            RecDestinationErrors("/destinations/" \o Idx(i), f.items[i])])

\* validateDestinationRecommendation.errors after the call.
ValidateDestinationRecommendationErrors(r) ==
    RequiredErrors(r, RecRequired)
      \o StringPropErrors("/id", r.id, 1)
      \o StringPropErrors("/tripOverview", r.tripOverview, 0)
      \o RecDestinationsErrors(r.destinations)
      \o ObjectPropErrors("/logistics", r.logistics)
      \o ObjectPropErrors("/totalCost", r.totalCost)

-----------------------------------------------------------------------------
(* Cross-field rules and the two exported validators.                       *)

Valid == [valid |-> TRUE, errors |-> <<>>]
Invalid(errors) == [valid |-> FALSE, errors |-> errors]

\* validateDateRange(data): endDate must be after startDate.
validateDateRange(d) ==
    IF Truthy(d.startDate) /\ Truthy(d.endDate)
       /\ DateLessEq(NewDate(d.endDate), NewDate(d.startDate))
    THEN Invalid(<<Err("endDate", "End date must be after start date")>>)
    ELSE Valid

\* The error validateDestinationDates pushes for the destination at `index`
\* (0-based), or none.
DestinationDateError(dest, index) ==
    IF Truthy(dest.arrivalDate) /\ Truthy(dest.departureDate)
       /\ DateLessEq(NewDate(dest.departureDate), NewDate(dest.arrivalDate))
    THEN <<Err("destinations[" \o ToString(index) \o "].departureDate",
               "Destination " \o dest.cityName.s
                   \o ": Departure date must be after arrival date")>>
    ELSE <<>>

\* validateDestinationDates(recommendation): every destination's
\* departureDate must be after its arrivalDate.
validateDestinationDates(r) ==
    LET errors ==
            IF r.destinations.kind = "array"
            THEN Concat([i \in 1 .. Len(r.destinations.items) |->
                     DestinationDateError(r.destinations.items[i], i - 1)])
            ELSE <<>>
    IN  IF Len(errors) > 0 THEN Invalid(errors) ELSE Valid

\* The body of validateTripSubmissionData running the date range rule
\* whatever the structural outcome and reporting both kinds of error.
TripResultAllRules(errors, d) ==
    IF errors \o validateDateRange(d).errors # <<>>
    THEN Invalid(errors \o validateDateRange(d).errors)
    ELSE Valid

\* The body of validateTripSubmissionData once validateTripSubmission(d) has
\* left `errors` in validateTripSubmission.errors: the structural errors
\* when there are any; the date range rule only when there are none.
TripResult(errors, d) ==
    IF errors # <<>> THEN Invalid(errors) ELSE validateDateRange(d)

\* The body of validateRecommendationData, likewise.
RecommendationResult(errors, r) ==
    IF errors # <<>> THEN Invalid(errors) ELSE validateDestinationDates(r)

\* validateTripSubmissionData(data), as a function of the envelope.
validateTripSubmissionData(d) ==
    TripResult(AssignErrors(<<>>, ValidateTripSubmissionErrors(d)), d)

\* validateRecommendationData(data), as a function of the envelope.
validateRecommendationData(r) ==
    RecommendationResult(AssignErrors(<<>>, ValidateDestinationRecommendationErrors(r)), r)

-----------------------------------------------------------------------------
(* Helpers of index.js: sanitizeString and the date normalisation.          *)

Whitespace == {" "}
Stripped   == {"<", ">", "\"", "'", "&"}

RECURSIVE TrimStart(_)
TrimStart(str) ==
    IF str # <<>> /\ Head(str) \in Whitespace THEN TrimStart(Tail(str)) ELSE str

RECURSIVE TrimEnd(_)
TrimEnd(str) ==
    IF str # <<>> /\ str[Len(str)] \in Whitespace
    THEN TrimEnd(SubSeq(str, 1, Len(str) - 1))
    ELSE str

\* sanitizeString(input) on a string: trim, then drop < > " ' &.
sanitizeString(str) == SelectSeq(TrimEnd(TrimStart(str)), LAMBDA c : c \notin Stripped)

\* The noon hour the normaliser anchors a date-only string at.
NoonHour == 12

NullDate == [kind |-> "null", time |-> 0]
Timestamp(t) == [kind |-> "timestamp", time |-> t]
DateThrow == [kind |-> "throw", time |-> 0]

\* The value submitTrip gives startDate / endDate for a date field of the
\* body: a YYYY-MM-DD string becomes noon UTC of the day its numbers spell
\* (Date.UTC rolls out-of-range months and days over); any other string goes
\* through new Date(string), and Timestamp.fromDate throws on an Invalid
\* Date; a missing field gives null.
normalizeDate(f) ==
    IF f.kind = "string" /\ f.pat
    THEN Timestamp(DateUTC(f.y, f.m - 1, f.d, NoonHour))
    ELSE IF Truthy(f)
         THEN (IF NewDate(f).valid THEN Timestamp(NewDate(f).time) ELSE DateThrow)
         ELSE NullDate

-----------------------------------------------------------------------------
(* Inputs drawn for the validators and the normaliser.                      *)

\* Bounds of the date strings drawn: digit groups that spell real days,
\* days a month does not have, and months and days outside the calendar.
MaxOffsetHours == 14    \* rendering offsets drawn: -14:00 .. +14:00
MaxRecItems    == 2     \* longest recommendation.destinations drawn

DateYears  == {2023, 2024}
DateMonths == {0, 2, 3, 12, 13}
DateDays   == {0, 1, 28, 29, 30, 31, 32}

DateStrs == {DateStr(y, m, d) : y \in DateYears, m \in DateMonths, d \in DateDays}

\* Offsets from UTC in quarter hours.
Offsets == {15 * k : k \in (0 - 4 * MaxOffsetHours) .. (4 * MaxOffsetHours)}

StrOf(s) == [kind |-> "string", s |-> s]
IntOf(n) == [kind |-> "integer", n |-> n]
NumOf(n) == [kind |-> "number", n |-> n]     \* a number with a fraction, n + 0.5
ArrOf(items) == [kind |-> "array", items |-> items]
BoolOf(b) == [kind |-> "boolean", b |-> b]
AbsentStr == [kind |-> "absent", s |-> ""]
AbsentInt == [kind |-> "absent", n |-> 0]
AbsentArr == [kind |-> "absent", items |-> <<>>]
AbsentBool == [kind |-> "absent", b |-> FALSE]

Paris == <<"a">>

\* The repository's test submission {destinations: ['Paris'], startDate:
\* '2024-06-15'-like, endDate later, travelStyle: 'Comfortable', groupSize: 2}.
BaseTrip ==
    [destinations  |-> ArrOf(<<Paris>>),
     startDate     |-> DateStr(2024, 3, 1),
     endDate       |-> DateStr(2024, 3, 28),
     travelStyle   |-> StrOf("Comfortable"),
     groupSize     |-> IntOf(2),
     flexibleDates |-> AbsentBool,
     extra         |-> AbsentStr]

\* A date the client wrote as MM/DD/YYYY, such as '06/15/2024'.
LegacyDate(y, m, d) == [kind |-> "string", pat |-> FALSE, y |-> y, m |-> m, d |-> d]

SeqsUpTo(S, n) == UNION {[1 .. k -> S] : k \in 0 .. n}

DestinationInputs ==
    {ArrOf([i \in 1 .. n |-> Paris]) : n \in 0 .. MaxItems}
        \cup {ArrOf(ds) : ds \in SeqsUpTo(Strs, 2)}
        \cup {AbsentArr}

GroupSizeInputs ==
    {IntOf(n) : n \in {-1, 0, 1, 2, 7, 19, 20, 21, 25}} \cup {NumOf(0), NumOf(2), NumOf(20), AbsentInt}

TripInputs ==
    {[BaseTrip EXCEPT !.startDate = s, !.endDate = e] : s \in DateStrs, e \in DateStrs}
    \cup {[BaseTrip EXCEPT !.destinations = ds, !.flexibleDates = f] :
            ds \in DestinationInputs, f \in {AbsentBool, BoolOf(TRUE)}}
    \cup {[BaseTrip EXCEPT !.destinations = ArrOf([i \in 1 .. n |-> Paris]),
                           !.endDate = e, !.travelStyle = t, !.groupSize = g] :
            n \in {0, 1, MaxDestinations, MaxDestinations + 1},
            e \in {DateStr(2024, 3, 1), DateStr(2024, 3, 28), DateStr(2024, 13, 1)},
            t \in {StrOf("Comfortable"), StrOf("NotAStyle"), AbsentStr},
            g \in GroupSizeInputs}
    \cup {[BaseTrip EXCEPT !.startDate = s, !.endDate = e, !.groupSize = g] :
            s \in {BaseTrip.startDate, AbsentDate},
            e \in {BaseTrip.endDate, AbsentDate},
            g \in GroupSizeInputs}
    \cup {[BaseTrip EXCEPT !.startDate = s, !.endDate = e] :
            s \in {BaseTrip.startDate, LegacyDate(2024, 6, 15)},
            e \in {BaseTrip.endDate, LegacyDate(2024, 6, 22)}}
    \cup {[BaseTrip EXCEPT !.extra = StrOf("x"), !.groupSize = g, !.flexibleDates = f] :
            g \in {IntOf(2), IntOf(0)}, f \in {AbsentBool, BoolOf(TRUE)}}

RecDest(city, arrival, departure) ==
    [id |-> StrOf("d"), cityName |-> StrOf(city), arrivalDate |-> arrival,
     departureDate |-> departure, numberOfNights |-> IntOf(1)]

RecDates == {DateStr(2024, 3, 1), DateStr(2024, 3, 28), DateStr(2024, 13, 1),
             DateStr(2024, 2, 30)}

RecDests == {RecDest(c, a, d) : c \in {"Paris"}, a \in RecDates, d \in RecDates}
               \cup {RecDest("Rome", DateStr(2024, 3, 1), DateStr(2024, 3, 1)),
                     [RecDest("Rome", DateStr(2024, 3, 28), DateStr(2024, 3, 1))
                        EXCEPT !.numberOfNights = IntOf(0)],
                     [RecDest("Rome", DateStr(2024, 3, 28), AbsentDate)
                        EXCEPT !.numberOfNights = IntOf(1)]}

ObjOf(ok) == [kind |-> "object", ok |-> ok]
AbsentObj == [kind |-> "absent", ok |-> FALSE]

BaseRec ==
    [id |-> StrOf("r"), tripOverview |-> StrOf("o"),
     destinations |-> ArrOf(<<RecDest("Paris", DateStr(2024, 3, 1), DateStr(2024, 3, 28))>>),
     logistics |-> ObjOf(TRUE), totalCost |-> ObjOf(TRUE), extra |-> AbsentStr]

RecInputs ==
    {[BaseRec EXCEPT !.destinations = ArrOf(ds)] : ds \in SeqsUpTo(RecDests, MaxRecItems)}
    \cup {[BaseRec EXCEPT !.destinations = ArrOf(ds), !.totalCost = c, !.id = i] :
            ds \in {<<RecDest("Paris", DateStr(2024, 3, 28), DateStr(2024, 3, 1))>>,
                    [k \in 1 .. MaxDestinations + 1 |-> RecDest("Paris", DateStr(2024, 3, 1), DateStr(2024, 3, 28))]},
            c \in {ObjOf(TRUE), ObjOf(FALSE), AbsentObj},
            i \in {StrOf("r"), StrOf(""), AbsentStr}}
    \cup {[BaseRec EXCEPT !.extra = StrOf("x"), !.id = i] : i \in {StrOf("r"), StrOf("")}}

\* What earlier calls on other envelopes can have left in the errors
\* property of the compiled validators: nothing, or the errors of an
\* envelope without destinations.
NoErrors == [trip |-> <<>>, recommendation |-> <<>>]
StaleErrors ==
    [trip |-> <<Err("destinations", "must have required property 'destinations'")>>,
     recommendation |-> <<Err("destinations", "must have required property 'destinations'")>>]

NoData   == [kind |-> "none"]
NoResult == [kind |-> "none"]
NoDate   == [kind |-> "none"]
NoDay    == <<>>

-----------------------------------------------------------------------------
(* SpecVal: the validators and the normaliser applied to drawn inputs.      *)

InitPure ==
    /\ data = NoData
    /\ recommendation = NoData
    /\ validation = NoResult
    /\ revalidation = NoResult
    /\ dateString = NoDate
    /\ instant = NoDate
    /\ tzOffset = 0
    /\ rendered = NoDay

\* Nothing has been handed to the harness yet.
NoInput == data = NoData /\ recommendation = NoData /\ dateString = NoDate

\* A caller builds a trip submission body.
ReceiveTrip(d) ==
    /\ NoInput
    /\ data' = d
    /\ UNCHANGED <<recommendation, validation, revalidation, ajvErrors,
                   dateString, instant, tzOffset, rendered>>

\* validateTripSubmissionData(data): validateTripSubmission(data) leaves its
\* errors in validateTripSubmission.errors and the schema defaults in data;
\* the wrapper returns the result.
ValidateTrip ==
    /\ data # NoData
    /\ validation = NoResult
    /\ ajvErrors' = [ajvErrors EXCEPT
          !.trip = AssignErrors(@, ValidateTripSubmissionErrors(data))]
    /\ validation' = TripResult(ajvErrors'.trip, data)
    /\ data' = ApplyTripDefaults(removeAdditional(tripAdditionalProperties, data))
    /\ UNCHANGED <<recommendation, revalidation, dateString, instant, tzOffset, rendered>>

\* validateTripSubmissionData(data) once more, on the envelope as the first
\* call left it.
RevalidateTrip ==
    /\ data # NoData
    /\ validation # NoResult
    /\ revalidation = NoResult
    /\ ajvErrors' = [ajvErrors EXCEPT
          !.trip = AssignErrors(@, ValidateTripSubmissionErrors(data))]
    /\ revalidation' = TripResult(ajvErrors'.trip, data)
    /\ data' = ApplyTripDefaults(removeAdditional(tripAdditionalProperties, data))
    /\ UNCHANGED <<recommendation, validation, dateString, instant, tzOffset, rendered>>

\* A caller builds a recommendation payload.
ReceiveRecommendation(r) ==
    /\ NoInput
    /\ recommendation' = r
    /\ UNCHANGED <<data, validation, revalidation, ajvErrors,
                   dateString, instant, tzOffset, rendered>>

\* validateRecommendationData(recommendation).
ValidateRecommendation ==
    /\ recommendation # NoData
    /\ validation = NoResult
    /\ ajvErrors' = [ajvErrors EXCEPT
          !.recommendation =
              AssignErrors(@, ValidateDestinationRecommendationErrors(recommendation))]
    /\ validation' = RecommendationResult(ajvErrors'.recommendation, recommendation)
    /\ recommendation' =
          removeAdditional(recommendationAdditionalProperties, recommendation)
    /\ UNCHANGED <<data, revalidation, dateString, instant, tzOffset, rendered>>

\* validateRecommendationData(recommendation) once more.
RevalidateRecommendation ==
    /\ recommendation # NoData
    /\ validation # NoResult
    /\ revalidation = NoResult
    /\ ajvErrors' = [ajvErrors EXCEPT
          !.recommendation =
              AssignErrors(@, ValidateDestinationRecommendationErrors(recommendation))]
    /\ revalidation' = RecommendationResult(ajvErrors'.recommendation, recommendation)
    /\ recommendation' =
          removeAdditional(recommendationAdditionalProperties, recommendation)
    /\ UNCHANGED <<data, validation, dateString, instant, tzOffset, rendered>>

\* A date string reaches the normaliser.
ReceiveDate(s) ==
    /\ NoInput
    /\ dateString' = s
    /\ UNCHANGED <<data, recommendation, validation, revalidation, ajvErrors,
                   instant, tzOffset, rendered>>

\* The normalisation of submitTrip applied to the date string.
NormalizeDate ==
    /\ dateString # NoDate
    /\ instant = NoDate
    /\ instant' = normalizeDate(dateString)
    /\ UNCHANGED <<data, recommendation, validation, revalidation, ajvErrors,
                   dateString, tzOffset, rendered>>

\* A reader in the zone at `offset` renders the stored instant as a day.
RenderDate(offset) ==
    /\ instant # NoDate
    /\ instant.kind = "timestamp"
    /\ rendered = NoDay
    /\ tzOffset' = offset
    /\ rendered' = toLocaleDateString(instant.time, offset)
    /\ UNCHANGED <<data, recommendation, validation, revalidation, ajvErrors,
                   dateString, instant>>

NextVal ==
    /\ \/ NoInput /\ \E d \in TripInputs : ReceiveTrip(d)
       \/ ValidateTrip
       \/ RevalidateTrip
       \/ NoInput /\ \E r \in RecInputs : ReceiveRecommendation(r)
       \/ ValidateRecommendation
       \/ RevalidateRecommendation
       \/ NoInput /\ \E s \in DateStrs : ReceiveDate(s)
       \/ NormalizeDate
       \/ \E offset \in Offsets : RenderDate(offset)
    /\ UNCHANGED <<storeVars, pnt, sendGrid, lenientDays>>

-----------------------------------------------------------------------------
(* The store and submitTrip.                                                *)

\* Bounds of the store model.
MaxDay   == 1     \* the clock runs over days 0 .. MaxDay
MaxSlots == 2     \* submitTrip invocations that can be in flight together
MaxTrips == 11    \* trip documents the collection grows to in SpecSeq
MaxSubmissions == 2   \* submissions that reach the rate limit check in Spec

\* The daily ceiling of the rate limiter.
DailyLimit == 10

Uids  == {"u1", "u2"}
Slots == 1 .. MaxSlots
Days  == 0 .. MaxDay

\* A RateLimitRecord as read by userSubmissionsRef.get(): a snapshot with
\* exists = FALSE when the identity has no document.
NoRecord == [exists |-> FALSE, lastSubmissionDate |-> 0, submissionCount |-> 0]
Record(day, count) ==
    [exists |-> TRUE, lastSubmissionDate |-> day, submissionCount |-> count]

\* One document shared by every caller instead of one per uid.
userSubmissionsRefShared(uid) == "u1"

\* db.collection('userSubmissions').doc(uid): the key of the caller's record.
userSubmissionsRef(uid) == uid

\* lastSubmissionDate.toDateString() === today.toDateString()
SameDay(day, today) == day = today

\* The daily limit check with > where the code has >=.
LimitReachedExclusive(doc, today) ==
    /\ doc.exists
    /\ SameDay(doc.lastSubmissionDate, today)
    /\ doc.submissionCount > DailyLimit

\* The daily limit check on the snapshot.
LimitReached(doc, today) ==
    /\ doc.exists
    /\ SameDay(doc.lastSubmissionDate, today)
    /\ doc.submissionCount >= DailyLimit

\* newSubmissionCount, from the snapshot read before the trip was added.
newSubmissionCount(doc, today) ==
    IF doc.exists /\ SameDay(doc.lastSubmissionDate, today)
    THEN doc.submissionCount + 1
    ELSE 1

\* The record userSubmissionsRef.set writes: FieldValue.serverTimestamp() is
\* the store's clock when the write commits.
WrittenRecord(doc, today, commitDay) ==
    Record(commitDay, newSubmissionCount(doc, today))

\* Math.max(1, Math.min(20, parseInt(data.groupSize) || 1))
clampGroupSize(f) ==
    LET parsed == IF f.kind \in {"integer", "number"} /\ f.n # 0 THEN f.n ELSE 1
        capped == IF parsed < MaxGroupSize THEN parsed ELSE MaxGroupSize
    IN  IF capped > MinGroupSize THEN capped ELSE MinGroupSize

\* data.destinations.map(d => sanitizeString(d)), without the filter.
sanitizeDestinationsUnfiltered(f) ==
    IF f.kind = "array"
    THEN [i \in 1 .. Len(f.items) |-> sanitizeString(f.items[i])]
    ELSE <<>>

\* data.destinations.map(d => sanitizeString(d)).filter(d => d)
sanitizeDestinations(f) ==
    IF f.kind = "array"
    THEN SelectSeq([i \in 1 .. Len(f.items) |-> sanitizeString(f.items[i])],
                   LAMBDA d : d # <<>>)
    ELSE <<>>

\* A request: the HTTP method, whether the Authorization header carries a
\* Bearer token, what verifyIdToken does with it, and the JSON body.
Request(method, bearer, token, body) ==
    [method |-> method, bearer |-> bearer, token |-> token, body |-> body]

\* The status submitTrip answers with before it consults the store, or 0 when
\* the request goes on to the rate limit check.
PreCheck(req) ==
    IF req.method = "OPTIONS" THEN 200
    ELSE IF req.method # "POST" THEN 405
    ELSE IF ~req.bearer THEN 401
    ELSE IF req.token \in {"auth/id-token-expired", "auth/argument-error"} THEN 401
    ELSE IF req.token # "ok" THEN 500
    ELSE IF ~validateTripSubmissionData(req.body).valid THEN 400
    ELSE IF \/ Len(sanitizeDestinations(req.body.destinations)) = 0
            \/ ~Truthy(req.body.startDate)
            \/ ~Truthy(req.body.endDate) THEN 400
    ELSE IF Len(sanitizeDestinations(req.body.destinations)) > MaxDestinations THEN 400
    ELSE 0

\* The outcome of the date parsing block: TRUE when it throws (a date is
\* null, Timestamp.fromDate throws, or endDate is not after startDate).
DateError(body) ==
    LET startDate == normalizeDate(body.startDate)
        endDate   == normalizeDate(body.endDate)
    IN  \/ startDate.kind # "timestamp"
        \/ endDate.kind # "timestamp"
        \/ endDate.time <= startDate.time

\* tripData, as stored by db.collection('trips').add.
TripData(uid, body, createdAt) ==
    [userId       |-> uid,
     destinations |-> sanitizeDestinations(body.destinations),
     startDate    |-> normalizeDate(body.startDate),
     endDate      |-> normalizeDate(body.endDate),
     groupSize    |-> clampGroupSize(body.groupSize),
     status       |-> "pending",
     createdAt    |-> createdAt]

\* Firestore draws a fresh document id; the model names the k-th trip
\* document of a user <<uid, k>>.
TripsOf(uid) == {id \in DOMAIN trips : trips[id].userId = uid}
NewTripId(uid) == <<uid, Cardinality(TripsOf(uid)) + 1>>

\* Trip documents of uid created on day d.
TripsOn(uid, d) == {id \in TripsOf(uid) : trips[id].createdAt = d}

\* The reference trips.add() resolves to; NoTripRef before it has.
NoTripRef == <<"", 0>>

\* A slot holds one invocation between its awaits: where it stands, the
\* identity of its token, its `today`, the body, the snapshot it read,
\* whether userSubmissionsRef.get() rejected for it, and tripRef.
IdleSlot ==
    [pc |-> "idle", uid |-> "", today |-> 0, body |-> NoData, doc |-> NoRecord,
     readFailed |-> FALSE, tripRef |-> NoTripRef]

InFlight(s) == inv[s].pc # "idle"

\* What a stretch of the handler ends in: the invocation goes on to its next
\* await (res = 0) or sends a response and is over.
Continue(slot) == [slot |-> slot, res |-> 0]
Respond(status) == [slot |-> IdleSlot, res |-> status]

NoResponse == [res |-> 0, readFailed |-> FALSE]

\* No request arrived in the step (a store call settled, or the clock moved).
NoRequest == [method |-> "none"]

\* The outcome `out` of slot s's stretch takes effect; readFailed records
\* that the stretch was the rejection of userSubmissionsRef.get().
Apply(s, out, readFailed) ==
    /\ inv' = [inv EXCEPT ![s] = out.slot]
    /\ response' =
          IF out.res = 0 THEN NoResponse
          ELSE [res |-> out.res, readFailed |-> readFailed]

\* The catch block of submitTrip with a store call that finds the record
\* unreadable treated as "no record": the invocation goes on to trips.add().
CatchStoreErrorFailOpen(slot) == Continue([slot EXCEPT !.pc = "add"])

\* The catch block of submitTrip for a store call that threw: 500, and the
\* invocation is over.
CatchStoreError(slot) == Respond(500)

-----------------------------------------------------------------------------
(* submitTrip, one action per stretch between two awaits on the store.      *)

\* Bodies submitted in the store specifications: the valid test submission,
\* an empty destinations array, a destination that sanitises to nothing, and
\* two dates outside the calendar that Date.UTC rolls over into the reverse
\* order.
BlankDestTrip == [BaseTrip EXCEPT !.destinations = ArrOf(<< <<"<">> >>)]
BadOrderTrip ==
    [BaseTrip EXCEPT !.startDate = DateStr(2024, 13, 2), !.endDate = DateStr(2024, 13, 1)]

Requests ==
    {Request("POST", TRUE, "ok", b) :
        b \in {BaseTrip, [BaseTrip EXCEPT !.destinations = ArrOf(<<>>)],
               BlankDestTrip, BadOrderTrip}}
    \cup {Request("OPTIONS", FALSE, "ok", BaseTrip),
          Request("GET", TRUE, "ok", BaseTrip),
          Request("POST", FALSE, "ok", BaseTrip),
          Request("POST", TRUE, "auth/id-token-expired", BaseTrip),
          Request("POST", TRUE, "auth/argument-error", BaseTrip),
          Request("POST", TRUE, "unavailable", BaseTrip)}

\* Lines 47-130 for a request whose token decodes to uid, at day `today`.
BeginOutcome(uid, req, today) ==
    IF PreCheck(req) # 0 THEN Respond(PreCheck(req))
    ELSE Continue([IdleSlot EXCEPT !.pc = "get", !.uid = uid, !.today = today,
                                   !.body = req.body])

\* Lines 132-220 once the snapshot `doc` has arrived.
GetOutcome(slot, doc) ==
    IF LimitReached(doc, slot.today) THEN Respond(429)
    ELSE IF DateError(slot.body) THEN Respond(400)
    ELSE Continue([slot EXCEPT !.pc = "add", !.doc = doc])

\* Method and token checks, validation, sanitisation, today, and the call of
\* userSubmissionsRef.get().  Slots are interchangeable: a new invocation
\* takes the first one that is free.
Begin(s, uid, req) ==
    /\ ~InFlight(s)
    /\ \A t \in Slots : t < s => InFlight(t)
    /\ request' = req
    /\ Apply(s, BeginOutcome(uid, req, now), FALSE)
    /\ UNCHANGED <<now, userSubmissions, trips>>

\* The snapshot arrives, and the attempt is counted in the record before
\* the limit check and the date parsing decide.
GetCountingAttempts(s) ==
    /\ inv[s].pc = "get"
    /\ Apply(s, GetOutcome(inv[s], userSubmissions[userSubmissionsRef(inv[s].uid)]), FALSE)
    /\ request' = NoRequest
    /\ userSubmissions' =
          [userSubmissions EXCEPT ![userSubmissionsRef(inv[s].uid)] =
              WrittenRecord(@, inv[s].today, now)]
    /\ UNCHANGED <<now, trips>>

\* The snapshot arrives; limit check, date parsing, tripData, and the call
\* of trips.add().
Get(s) ==
    /\ inv[s].pc = "get"
    /\ Apply(s, GetOutcome(inv[s], userSubmissions[userSubmissionsRef(inv[s].uid)]), FALSE)
    /\ request' = NoRequest
    /\ UNCHANGED <<now, userSubmissions, trips>>

\* userSubmissionsRef.get() rejects.
GetFail(s) ==
    /\ inv[s].pc = "get"
    /\ Apply(s, CatchStoreError([inv[s] EXCEPT !.readFailed = TRUE]), TRUE)
    /\ request' = NoRequest
    /\ UNCHANGED <<now, userSubmissions, trips>>

\* The trip document is created (createdAt is the store's clock);
\* newSubmissionCount is computed from the snapshot and
\* userSubmissionsRef.set() is called.
Add(s) ==
    /\ inv[s].pc = "add"
    /\ LET id == NewTripId(inv[s].uid)
       IN  trips' = [t \in DOMAIN trips \cup {id} |->
                        IF t = id THEN TripData(inv[s].uid, inv[s].body, now)
                        ELSE trips[t]]
    /\ Apply(s, Continue([inv[s] EXCEPT !.pc = "set", !.body = NoData,
                                        !.tripRef = NewTripId(inv[s].uid)]), FALSE)
    /\ request' = NoRequest
    /\ UNCHANGED <<now, userSubmissions>>

\* trips.add() rejects.
AddFail(s) ==
    /\ inv[s].pc = "add"
    /\ Apply(s, CatchStoreError(inv[s]), FALSE)
    /\ request' = NoRequest
    /\ UNCHANGED <<now, userSubmissions, trips>>

\* The write-back as a transaction would do it: the record is read again
\* at commit and the count is derived from what it holds then.
SetTransactional(s) ==
    /\ inv[s].pc = "set"
    /\ userSubmissions' =
          [userSubmissions EXCEPT ![userSubmissionsRef(inv[s].uid)] =
              WrittenRecord(userSubmissions[userSubmissionsRef(inv[s].uid)],
                            inv[s].today, now)]
    /\ Apply(s, Respond(200), FALSE)
    /\ request' = NoRequest
    /\ UNCHANGED <<now, trips>>

\* The record is overwritten and the caller gets 200.
Set(s) ==
    /\ inv[s].pc = "set"
    /\ userSubmissions' =
          [userSubmissions EXCEPT ![userSubmissionsRef(inv[s].uid)] =
              WrittenRecord(inv[s].doc, inv[s].today, now)]
    /\ Apply(s, Respond(200), FALSE)
    /\ request' = NoRequest
    /\ UNCHANGED <<now, trips>>

\* userSubmissionsRef.set() rejects after the trip was added.
SetFail(s) ==
    /\ inv[s].pc = "set"
    /\ Apply(s, CatchStoreError(inv[s]), FALSE)
    /\ request' = NoRequest
    /\ UNCHANGED <<now, userSubmissions, trips>>

\* Midnight passes on the server.
Tick ==
    /\ now < MaxDay
    /\ now' = now + 1
    /\ request' = NoRequest
    /\ response' = NoResponse
    /\ UNCHANGED <<userSubmissions, trips, inv>>

\* No 429 has been sent yet.
NoRejection == [day |-> [u \in Uids |-> -1], late |-> {}]

\* The process as it starts: sgMail is null and nothing has been done to the
\* mail client; key says whether SENDGRID_API_KEY is set.
FreshProcess(key) == [key |-> key, sgMail |-> "null", events |-> <<>>]

\* initSendGrid(), as the change it makes to the process: with sgMail null
\* and a key present it loads the client, assigns it to sgMail and then
\* calls setApiKey; otherwise it changes nothing.  It returns sgMail.
initSendGrid(sg) ==
    IF sg.sgMail = "null" /\ sg.key
    THEN [sg EXCEPT !.sgMail = "client",
                    !.events = @ \o <<"require", "assign", "setApiKey">>]
    ELSE sg

InitTrigger == pnt = <<>> /\ sendGrid = FreshProcess(TRUE)

\* The empty store.
InitStore ==
    /\ now = 0
    /\ userSubmissions = [u \in Uids |-> NoRecord]
    /\ trips = <<>>
    /\ inv = [s \in Slots |-> IdleSlot]
    /\ request = NoRequest
    /\ response = NoResponse
    /\ started = 0
    /\ rejection = NoRejection

\* The store after each identity had n[uid] submissions admitted one at a
\* time on day 0 (states SpecSeq reaches).  Spec starts with u1 one short of
\* the daily limit or at the limit, and u2 without a record.
AdmittedCounts == {DailyLimit - 1, DailyLimit}

InitAdmitted(n) ==
    /\ now = 0
    /\ userSubmissions =
          [u \in Uids |-> IF n[u] = 0 THEN NoRecord ELSE Record(0, n[u])]
    /\ trips = [id \in {t \in Uids \X (1 .. DailyLimit) : t[2] <= n[t[1]]} |->
                   TripData(id[1], BaseTrip, 0)]
    /\ inv = [s \in Slots |-> IdleSlot]
    /\ request = NoRequest
    /\ response = NoResponse
    /\ started = 0
    /\ rejection = NoRejection

Init ==
    /\ \E n \in AdmittedCounts : InitAdmitted([u \in Uids |-> IF u = "u1" THEN n ELSE 0])
    /\ InitTrigger
    /\ InitPure
    /\ ajvErrors = NoErrors
    /\ lenientDays = TRUE

\* Spec bounds the submissions that reach the store.
BeginSubmission(s, uid, req) ==
    /\ started < MaxSubmissions
    /\ Begin(s, uid, req)
    /\ started' = IF PreCheck(req) = 0 THEN started + 1 ELSE started

Next ==
    /\ \/ \E s \in Slots, uid \in Uids, req \in Requests : BeginSubmission(s, uid, req)
       \/ \E s \in Slots : Get(s) /\ UNCHANGED started
       \/ \E s \in Slots : GetFail(s) /\ UNCHANGED started
       \/ \E s \in Slots : Add(s) /\ UNCHANGED started
       \/ \E s \in Slots : AddFail(s) /\ UNCHANGED started
       \/ \E s \in Slots : Set(s) /\ UNCHANGED started
       \/ \E s \in Slots : SetFail(s) /\ UNCHANGED started
       \/ Tick /\ UNCHANGED started
    /\ UNCHANGED <<rejection, pnt, sendGrid, lenientDays, pureVars>>

Spec == Init /\ [][Next]_vars

-----------------------------------------------------------------------------
(* processNewTrip, the trigger that runs once for every created trip        *)
(* document, one action per stretch between two awaits.                     *)

MaxTriggered == 2     \* trip documents per identity in SpecTrip

\* A processNewTrip invocation: where it stands, and whether
\* sendNewTripNotification threw for it.
Triggered == [pc |-> "update", notifyFailed |-> FALSE]

\* The inner catch with the error passed on to the outer catch.
CatchEmailErrorRethrow(p) == [p EXCEPT !.pc = "catch", !.notifyFailed = TRUE]

\* The inner catch around sendNewTripNotification: warn, and go on to the
\* end of the try block.
CatchEmailError(p) == [p EXCEPT !.pc = "done", !.notifyFailed = TRUE]

\* update({status: 'pending', updatedAt}) commits; sendNewTripNotification
\* is called.
UpdatePending(id) ==
    /\ pnt[id].pc = "update"
    /\ trips' = [trips EXCEPT ![id].status = "pending"]
    /\ pnt' = [pnt EXCEPT ![id].pc = "notify"]
    /\ UNCHANGED sendGrid

\* update({status: 'pending'}) rejects: control passes to the outer catch.
UpdatePendingFail(id) ==
    /\ pnt[id].pc = "update"
    /\ pnt' = [pnt EXCEPT ![id].pc = "catch"]
    /\ UNCHANGED trips
    /\ UNCHANGED sendGrid

\* sendNewTripNotification returns: the mail was sent, or SendGrid is not
\* configured and the notification was skipped.
Notify(id) ==
    /\ pnt[id].pc = "notify"
    /\ sendGrid' = initSendGrid(sendGrid)
    /\ pnt' = [pnt EXCEPT ![id].pc = "done"]
    /\ UNCHANGED trips

\* sendNewTripNotification throws (a profile read or sgMail.send rejects).
NotifyFail(id) ==
    /\ pnt[id].pc = "notify"
    /\ sendGrid' = initSendGrid(sendGrid)
    /\ sendGrid'.sgMail # "null"
    /\ pnt' = [pnt EXCEPT ![id] = CatchEmailError(pnt[id])]
    /\ UNCHANGED trips

\* The outer catch: update({status: 'failed', errorMessage, updatedAt}).
MarkFailed(id) ==
    /\ pnt[id].pc = "catch"
    /\ trips' = [trips EXCEPT ![id].status = "failed"]
    /\ pnt' = [pnt EXCEPT ![id].pc = "done"]
    /\ UNCHANGED sendGrid

\* The update of the outer catch rejects too, and the handler rejects.
MarkFailedFail(id) ==
    /\ pnt[id].pc = "catch"
    /\ pnt' = [pnt EXCEPT ![id].pc = "done"]
    /\ UNCHANGED trips
    /\ UNCHANGED sendGrid

\* SpecTrip: the trigger invocations for the trips submitTrip admitted, one
\* to MaxTriggered per identity.
InitTrip ==
    /\ \E n \in [Uids -> 1 .. MaxTriggered] : InitAdmitted(n)
    /\ pnt = [id \in DOMAIN trips |-> Triggered]
    /\ \E key \in BOOLEAN : sendGrid = FreshProcess(key)
    /\ InitPure
    /\ ajvErrors = NoErrors
    /\ lenientDays = TRUE

NextTrip ==
    /\ \E id \in DOMAIN pnt :
          \/ UpdatePending(id)
          \/ UpdatePendingFail(id)
          \/ Notify(id)
          \/ NotifyFail(id)
          \/ MarkFailed(id)
          \/ MarkFailedFail(id)
    /\ UNCHANGED <<now, userSubmissions, inv, request, response, started, rejection,
                   lenientDays, pureVars>>

SpecTrip == InitTrip /\ [][NextTrip]_vars

\* SpecSeq: one invocation at a time, no store failure, from the empty store.
InitSeq ==
    /\ InitStore
    /\ InitTrigger
    /\ InitPure
    /\ ajvErrors = NoErrors
    /\ lenientDays = TRUE

BeginAlone(s, uid, req) ==
    /\ \A t \in Slots : ~InFlight(t)
    /\ Cardinality(DOMAIN trips) < MaxTrips
    /\ Begin(s, uid, req)

NextSeq ==
    /\ \/ \E s \in Slots, uid \in Uids, req \in Requests : BeginAlone(s, uid, req)
       \/ \E s \in Slots : Get(s)
       \/ \E s \in Slots : Add(s)
       \/ \E s \in Slots : Set(s)
       \/ Tick
    /\ UNCHANGED <<started, rejection, pnt, sendGrid, lenientDays, pureVars>>

SpecSeq == InitSeq /\ [][NextSeq]_vars

-----------------------------------------------------------------------------
(* updateTripRecommendation.                                                *)

\* Whether the identifier `admin` of lines 308 and 310 is bound: the module
\* imports initializeApp, getFirestore, Timestamp, FieldValue and getAuth,
\* and declares nothing named admin.
adminBound == FALSE

\* A request to updateTripRecommendation: method, Bearer header, what
\* verifyIdToken does with the token, the admin claim and uid of the decoded
\* token, and the tripId and recommendation of the body.
UpdateRequest(method, bearer, token, admin, uid, tripId, rec) ==
    [method |-> method, bearer |-> bearer, token |-> token, admin |-> admin,
     uid |-> uid, tripId |-> tripId, recommendation |-> rec]

\* A body without tripId, and the id of no trip document.
NoTripId      == <<"", 0>>
UnknownTripId == <<"u1", 0>>

\* The checks of updateTripRecommendation without the one of the admin
\* claim.
UpdatePreCheckAnyCaller(req) ==
    IF req.method = "OPTIONS" THEN 200
    ELSE IF ~req.bearer THEN 401
    ELSE IF req.token # "ok" THEN 500
    ELSE IF req.tripId = NoTripId \/ req.recommendation = NoData THEN 400
    ELSE IF ~validateRecommendationData(req.recommendation).valid THEN 400
    ELSE 0

\* The status updateTripRecommendation answers with before it builds the
\* update, or 0 when it goes on to it.  A rejected verifyIdToken lands in
\* the catch block.
UpdatePreCheck(req) ==
    IF req.method = "OPTIONS" THEN 200
    ELSE IF ~req.bearer THEN 401
    ELSE IF req.token # "ok" THEN 500
    ELSE IF ~req.admin THEN 403
    ELSE IF req.tripId = NoTripId \/ req.recommendation = NoData THEN 400
    ELSE IF ~validateRecommendationData(req.recommendation).valid THEN 400
    ELSE 0

\* The document after update({status: 'completed', recommendation,
\* updatedAt, completedBy, completedAt}).
Completed(doc, rec, uid, at) ==
    ("recommendation" :> rec) @@ ("completedBy" :> uid) @@ ("completedAt" :> at)
        @@ [doc EXCEPT !.status = "completed"]

\* The handler, from the request to the response.  Evaluating the argument
\* of update() reads admin.firestore and throws a ReferenceError before
\* update() is called, which the catch block turns into 500; with admin
\* bound the update would commit (or reject for a document that does not
\* exist).
updateTripRecommendation(req) ==
    /\ request' = req
    /\ IF UpdatePreCheck(req) # 0
       THEN /\ response' = [res |-> UpdatePreCheck(req), readFailed |-> FALSE]
            /\ UNCHANGED trips
       ELSE IF ~adminBound \/ req.tripId \notin DOMAIN trips
       THEN /\ response' = [res |-> 500, readFailed |-> FALSE]
            /\ UNCHANGED trips
       ELSE /\ response' = [res |-> 200, readFailed |-> FALSE]
            /\ trips' = [trips EXCEPT ![req.tripId] =
                           Completed(@, removeAdditional(recommendationAdditionalProperties,
                                                         req.recommendation),
                                     req.uid, now)]
    /\ UNCHANGED <<now, userSubmissions, inv>>

-----------------------------------------------------------------------------
(* SpecApi: the two HTTP functions, one submitTrip invocation at a time and *)
(* no store failure, from the empty store.                                  *)

MaxAssembled == 1     \* trip documents the collection grows to in SpecApi

\* Bodies that differ from the test submission in groupSize or in the dates:
\* group sizes below, inside and above the schema's range; months and days
\* outside the calendar in pattern-conforming strings; dates written as
\* MM/DD/YYYY.
GroupSizeTrips ==
    {[BaseTrip EXCEPT !.groupSize = IntOf(g)] : g \in {0, 7, 20, 25}}

OffCalendarTrips ==
    {[BaseTrip EXCEPT !.startDate = DateStr(2024, 13, 1), !.endDate = DateStr(2024, 13, 2)],
     [BaseTrip EXCEPT !.startDate = DateStr(2024, 2, 30)],
     [BaseTrip EXCEPT !.startDate = DateStr(2024, 2, 45)]}

LegacyDateTrips ==
    {[BaseTrip EXCEPT !.startDate = st, !.endDate = en] :
        st \in {BaseTrip.startDate, LegacyDate(2024, 6, 15)},
        en \in {BaseTrip.endDate, LegacyDate(2024, 6, 22)}}

\* Destinations that sanitisation changes: a stripped character beside a
\* letter, an entry that sanitises to nothing beside one that does not, an
\* entry of which a blank is left, two entries that sanitise to nothing;
\* and five and six entries.
DestinationTrips ==
    {[BaseTrip EXCEPT !.destinations = ArrOf(ds)] :
        ds \in {<< <<"<", "a">> >>,
                << <<"<">>, Paris >>,
                << <<"<", " ", "<">> >>,
                << <<"<">>, <<" ", "<">> >>,
                [i \in 1 .. MaxDestinations |-> Paris],
                [i \in 1 .. MaxDestinations + 1 |-> Paris]}}

AssemblerRequests ==
    Requests \cup {Request("POST", TRUE, "ok", b) :
                      b \in GroupSizeTrips \cup OffCalendarTrips \cup LegacyDateTrips
                              \cup DestinationTrips}

\* Requests to updateTripRecommendation: an administrator's, for each trip
\* document, an unknown id and a body without tripId, with a valid
\* recommendation, one carrying an undeclared field, an invalid one and
\* none; and requests that fail the method, header, token and claim checks.
UpdateRequests ==
    {UpdateRequest("POST", TRUE, "ok", TRUE, "admin", id, r) :
        id \in DOMAIN trips,
        r \in {BaseRec, [BaseRec EXCEPT !.extra = StrOf("x")],
               [BaseRec EXCEPT !.id = StrOf("")], NoData}}
    \cup {UpdateRequest("POST", TRUE, "ok", TRUE, "admin", id, BaseRec) :
            id \in {UnknownTripId, NoTripId}}
    \cup {UpdateRequest("OPTIONS", FALSE, "ok", FALSE, "u1", NoTripId, NoData),
          UpdateRequest("POST", FALSE, "ok", FALSE, "u1", UnknownTripId, BaseRec),
          UpdateRequest("POST", TRUE, "unavailable", FALSE, "u1", UnknownTripId, BaseRec),
          UpdateRequest("POST", TRUE, "ok", FALSE, "u1", UnknownTripId, BaseRec)}

InitApi ==
    /\ InitStore
    /\ InitTrigger
    /\ InitPure
    /\ ajvErrors = NoErrors
    /\ lenientDays = TRUE

BeginOne(s, uid, req) ==
    /\ \A t \in Slots : ~InFlight(t)
    /\ Cardinality(DOMAIN trips) < MaxAssembled
    /\ Begin(s, uid, req)

NextApi ==
    /\ \/ \E s \in Slots, req \in AssemblerRequests : BeginOne(s, "u1", req)
       \/ \E s \in Slots : Get(s)
       \/ \E s \in Slots : Add(s)
       \/ \E s \in Slots : Set(s)
       \/ Tick
       \/ \E req \in UpdateRequests : updateTripRecommendation(req)
    /\ UNCHANGED <<started, rejection, pnt, sendGrid, lenientDays, pureVars>>

SpecApi == InitApi /\ [][NextApi]_vars

-----------------------------------------------------------------------------
(* SpecStale: submissions of one identity that is two short of the daily    *)
(* limit, racing with no store failure.                                     *)

MaxStale == 5     \* submissions that reach the rate limit check in SpecStale

InitStale ==
    /\ InitAdmitted([u \in Uids |-> IF u = "u1" THEN DailyLimit - 2 ELSE 0])
    /\ InitTrigger
    /\ InitPure
    /\ ajvErrors = NoErrors
    /\ lenientDays = TRUE

\* A submission begins; it is late when its identity was already answered
\* 429 on the day it begins.
BeginStale(s, uid) ==
    /\ started < MaxStale
    /\ Begin(s, uid, Request("POST", TRUE, "ok", BaseTrip))
    /\ started' = started + 1
    /\ rejection' = [rejection EXCEPT !.late =
                        IF rejection.day[uid] = now THEN @ \cup {s} ELSE @ \ {s}]

\* The snapshot arrives; a 429 is recorded with the invocation's today.
GetStale(s) ==
    /\ Get(s)
    /\ rejection' = IF response'.res = 429
                    THEN [rejection EXCEPT !.day[inv[s].uid] = inv[s].today]
                    ELSE rejection

NextStale ==
    /\ \/ \E s \in Slots : BeginStale(s, "u1")
       \/ \E s \in Slots : GetStale(s) /\ UNCHANGED started
       \/ \E s \in Slots : Add(s) /\ UNCHANGED <<started, rejection>>
       \/ \E s \in Slots : Set(s) /\ UNCHANGED <<started, rejection>>
       \/ Tick /\ UNCHANGED <<started, rejection>>
    /\ UNCHANGED <<pnt, sendGrid, lenientDays, pureVars>>

SpecStale == InitStale /\ [][NextStale]_vars

InitVal ==
    /\ InitStore
    /\ InitTrigger
    /\ InitPure
    /\ ajvErrors \in {NoErrors, StaleErrors}
    /\ lenientDays \in BOOLEAN

SpecVal == InitVal /\ [][NextVal]_vars

-----------------------------------------------------------------------------
(* Properties of the validators and the normaliser, checked under SpecVal.  *)

\* validateTripSubmissionData has returned for the submission in `data`.
TripValidated == data # NoData /\ validation # NoResult

\* validateRecommendationData has returned for `recommendation`.
RecommendationValidated == recommendation # NoData /\ validation # NoResult

DateRangeError == Err("endDate", "End date must be after start date")

\* C7: for every structurally valid trip submission whose startDate and
\* endDate match YYYY-MM-DD, validateTripSubmissionData returns invalid with
\* the error 'End date must be after start date' on field endDate whenever
\* end <= start, and returns valid whenever end > start.
C7_DateRangeDecided ==
    (TripValidated /\ ValidateTripSubmissionErrors(data) = <<>>) =>
        IF DateStrLess(data.startDate, data.endDate)
        THEN validation.valid
        ELSE validation = Invalid(<<DateRangeError>>)

\* The destinations of r (1-based positions) whose departureDate is not
\* strictly after their arrivalDate.
Violators(r) ==
    {i \in 1 .. Len(r.destinations.items) :
        ~DateStrLess(r.destinations.items[i].arrivalDate,
                     r.destinations.items[i].departureDate)}

\* C8: for a structurally valid recommendation, validateRecommendationData
\* reports exactly one error per destination whose departureDate is not
\* strictly after its arrivalDate, the error's field carrying the 0-based
\* position of that destination, and the result is valid iff there is no
\* such destination.
C8_EveryViolatorReported ==
    (RecommendationValidated
        /\ ValidateDestinationRecommendationErrors(recommendation) = <<>>) =>
        /\ validation.valid <=> Violators(recommendation) = {}
        /\ Len(validation.errors) = Cardinality(Violators(recommendation))
        /\ \A i \in Violators(recommendation) :
              \E k \in 1 .. Len(validation.errors) :
                  validation.errors[k].field
                      = "destinations[" \o ToString(i - 1) \o "].departureDate"

\* A submission that gives validateTripSubmissionData nothing to object to
\* apart from the number of its destinations.
OtherwiseValid(d) ==
    /\ d.destinations.kind = "array"
    /\ \A i \in 1 .. Len(d.destinations.items) :
          Len(d.destinations.items[i]) \in 1 .. MaxDestLength
    /\ IsCalendarDate(d.startDate) /\ IsCalendarDate(d.endDate)
    /\ DateStrLess(d.startDate, d.endDate)
    /\ d.travelStyle = StrOf("Comfortable")
    /\ d.groupSize.kind = "integer" /\ d.groupSize.n \in 1 .. 20
    /\ d.flexibleDates.kind \in {"absent", "boolean"}

\* C9: validateTripSubmissionData rejects a submission whose destinations
\* array has no entry or more than 5 entries, and accepts an otherwise valid
\* submission with 1 to 5 destinations.
C9_DestinationCount ==
    (TripValidated /\ data.destinations.kind = "array") =>
        /\ Len(data.destinations.items) \notin 1 .. 5 => ~validation.valid
        /\ (OtherwiseValid(data) /\ Len(data.destinations.items) \in 1 .. 5)
              => validation.valid

\* An otherwise valid submission with exactly 5 destinations was accepted.
C9_FiveAccepted ==
    /\ TripValidated
    /\ OtherwiseValid(data)
    /\ Len(data.destinations.items) = 5
    /\ validation.valid

\* C10: the instant the normaliser produces for a YYYY-MM-DD string naming a
\* calendar day, rendered as a day at any offset from -14 to +14 hours, is
\* the day the string names.
C10_RoundTrip ==
    (rendered # NoDay /\ IsCalendarDate(dateString)
        /\ tzOffset \in (0 - 14 * 60) .. (14 * 60)) =>
        rendered = <<dateString.y, dateString.m, dateString.d>>

-----------------------------------------------------------------------------
(* Properties of the rate limiter and of the trigger.                       *)

\* Slot s of submitTrip takes the step in which its snapshot arrives.
ReadStep(s) == inv[s].pc = "get" /\ inv'[s] # inv[s]

\* Slot s takes the step in which userSubmissionsRef.get() rejects.
ReadFailedStep(s) ==
    /\ ReadStep(s)
    /\ inv'[s].readFailed \/ (inv'[s].pc = "idle" /\ response'.readFailed)

\* Slot s takes the step in which userSubmissionsRef.set() commits.
CommitStep(s) == inv[s].pc = "set" /\ inv'[s].pc = "idle" /\ response'.res = 200

\* The count the limiter's rule gives after a snapshot: 1 when there is no
\* record or the record is of another day than today, else the count + 1.
RuleCount(doc, today) ==
    IF doc.exists /\ doc.lastSubmissionDate = today THEN doc.submissionCount + 1 ELSE 1

\* C1: with the submissions of an identity handled one at a time and no
\* store failure, a valid submission is rejected by the limiter exactly when
\* 10 trips of that identity were already admitted on its calendar day (so
\* the first 10 of a day are admitted, the 11th is rejected, and the first of
\* the next day is admitted); the first submission of an identity, and the
\* first of a new day, leave submissionCount = 1.
C1_TenPerDay ==
    [][\A s \in Slots :
        /\ (ReadStep(s) /\ inv[s].body = BaseTrip) =>
              /\ (inv'[s].pc = "idle" /\ response'.res = 429)
                    <=> Cardinality(TripsOn(inv[s].uid, inv[s].today)) >= 10
              /\ inv'[s].pc = "add"
                    <=> Cardinality(TripsOn(inv[s].uid, inv[s].today)) < 10
        /\ (CommitStep(s) /\ Cardinality(TripsOn(inv[s].uid, now)) = 1) =>
              userSubmissions'[inv[s].uid].submissionCount = 1
      ]_vars

\* C2: a committing invocation overwrites the record with the count derived
\* from the snapshot it read itself, whatever the record holds by then (last
\* write wins), and every invocation past the check passed it on its own
\* snapshot; so two overlapping invocations of one identity that read the
\* same count both commit.
C2_LastWriteWins ==
    [][\A s \in Slots :
        /\ CommitStep(s) =>
              userSubmissions'[inv[s].uid].submissionCount
                  = RuleCount(inv[s].doc, inv[s].today)
        /\ inv'[s].pc \in {"add", "set"} =>
              ~(/\ inv'[s].doc.exists
                /\ inv'[s].doc.lastSubmissionDate = inv'[s].today
                /\ inv'[s].doc.submissionCount >= 10)
      ]_vars

\* Two invocations that read the same count have both committed: an identity
\* has more than 10 trips admitted on one day while its record counts 10.
C2_CeilingExceeded ==
    \E u \in Uids, d \in Days :
        /\ Cardinality(TripsOn(u, d)) > 10
        /\ userSubmissions[u] = Record(d, 10)
        /\ \A s \in Slots : ~InFlight(s)

\* C3: an invocation for identity A takes as its snapshot A's record, decides
\* on that snapshot alone, and a step changes the record of an identity only
\* when it is the commit of an invocation for that identity.
C3_PerIdentity ==
    [][/\ \A s \in Slots :
             (ReadStep(s) /\ ~ReadFailedStep(s) /\ inv[s].body = BaseTrip) =>
                 LET own == userSubmissions[inv[s].uid]
                     full == /\ own.exists
                             /\ own.lastSubmissionDate = inv[s].today
                             /\ own.submissionCount >= 10
                 IN  IF full THEN inv'[s].pc = "idle" /\ response'.res = 429
                     ELSE inv'[s].pc = "add" /\ inv'[s].doc = own
       /\ \A u \in Uids :
             userSubmissions'[u] # userSubmissions[u] =>
                 \E s \in Slots : CommitStep(s) /\ inv[s].uid = u
      ]_vars

\* An identity was admitted, and it was its first submission of the day,
\* while the other identity's record stands at the limit for that day.
C3_AdmittedBesideFullRecord ==
    /\ response.res = 200
    /\ userSubmissions["u2"] = Record(now, 1)
    /\ userSubmissions["u1"] = Record(now, 10)

\* C4: the record an admitted submission writes back has lastSubmissionDate
\* on the day of the `today` the invocation decided with, and submissionCount
\* 1 if the lastSubmissionDate it read differed from that `today`, else the
\* count it read plus 1.
C4_WriteBack ==
    [][\A s \in Slots :
        CommitStep(s) =>
            /\ userSubmissions'[inv[s].uid].lastSubmissionDate = inv[s].today
            /\ userSubmissions'[inv[s].uid].submissionCount
                  = RuleCount(inv[s].doc, inv[s].today)
      ]_vars

\* C5: when the read of the identity's record fails, the invocation is over
\* with a 500 response, no trip document is created and no record changes.
C5_FailClosed ==
    [][\A s \in Slots :
        ReadFailedStep(s) =>
            /\ inv'[s].pc = "idle"
            /\ response'.res = 500
            /\ trips' = trips
            /\ userSubmissions' = userSubmissions
      ]_vars

\* A read failed for an identity with no record, and nothing was stored.
C5_ReadFailed ==
    /\ response.readFailed
    /\ response.res = 500
    /\ \E u \in Uids : userSubmissions[u] = NoRecord /\ TripsOf(u) = {}

\* C6: a trip for which sendNewTripNotification threw still exists and its
\* status is 'pending', never 'failed'.
C6_AdmissionStands ==
    \A id \in DOMAIN pnt :
        pnt[id].notifyFailed => id \in DOMAIN trips /\ trips[id].status = "pending"

\* sendNewTripNotification threw for a trip and processNewTrip has returned.
C6_NotificationFailed ==
    \E id \in DOMAIN pnt : pnt[id].notifyFailed /\ pnt[id].pc = "done"

-----------------------------------------------------------------------------
(* Further properties of the validators, checked under SpecVal.             *)

\* A submission that gives validateTripSubmissionData nothing to object to
\* apart from its groupSize.
ValidApartFromGroupSize(d) ==
    /\ d.destinations.kind = "array"
    /\ Len(d.destinations.items) \in 1 .. 5
    /\ \A i \in 1 .. Len(d.destinations.items) :
          Len(d.destinations.items[i]) \in 1 .. MaxDestLength
    /\ IsCalendarDate(d.startDate) /\ IsCalendarDate(d.endDate)
    /\ DateStrLess(d.startDate, d.endDate)
    /\ d.travelStyle = StrOf("Comfortable")
    /\ d.flexibleDates.kind \in {"absent", "boolean"}

\* C13: validateTripSubmissionData accepts an otherwise valid submission
\* exactly when its groupSize is an integer from 1 to 20, both included.
C13_GroupSizeRange ==
    (TripValidated /\ ValidApartFromGroupSize(data)) =>
        (validation.valid <=>
            (data.groupSize.kind = "integer" /\ data.groupSize.n \in 1 .. 20))

\* An otherwise valid submission with groupSize 20 was accepted.
C13_TwentyAccepted ==
    /\ TripValidated
    /\ ValidApartFromGroupSize(data)
    /\ data.groupSize = IntOf(20)
    /\ validation.valid

\* Every structural rule of tripSubmissionSchema holds of d.
TripStructurallySound(d) ==
    /\ d.destinations.kind = "array"
    /\ Len(d.destinations.items) \in 1 .. 5
    /\ \A i \in 1 .. Len(d.destinations.items) :
          Len(d.destinations.items[i]) \in 1 .. MaxDestLength
    /\ d.startDate.kind = "string" /\ d.startDate.pat
    /\ d.endDate.kind = "string" /\ d.endDate.pat
    /\ d.travelStyle = StrOf("Comfortable")
    /\ d.groupSize.kind = "integer" /\ d.groupSize.n \in 1 .. 20
    /\ d.flexibleDates.kind \in {"absent", "boolean"}

\* Every structural rule of destinationRecommendationSchema holds of r.
RecStructurallySound(r) ==
    /\ r.id.kind = "string" /\ Len(r.id.s) >= 1
    /\ r.tripOverview.kind = "string"
    /\ r.logistics = ObjOf(TRUE) /\ r.totalCost = ObjOf(TRUE)
    /\ r.destinations.kind = "array"
    /\ Len(r.destinations.items) \in 1 .. 5
    /\ \A i \in 1 .. Len(r.destinations.items) :
          LET dest == r.destinations.items[i]
          IN  /\ dest.id.kind = "string"
              /\ dest.cityName.kind = "string" /\ Len(dest.cityName.s) >= 1
              /\ dest.arrivalDate.kind = "string" /\ dest.arrivalDate.pat
              /\ dest.departureDate.kind = "string" /\ dest.departureDate.pat
              /\ dest.numberOfNights.kind = "integer"
              /\ dest.numberOfNights.n \in 1 .. 90

\* The fields the destination-date rule reports its errors on.
DestinationDateFields ==
    {"destinations[" \o ToString(i) \o "].departureDate" : i \in 0 .. MaxItems}

\* C18: when an envelope violates a structural rule, the result is invalid
\* and holds no error of the date-range rule (for a submission) or of the
\* destination-date rule (for a recommendation), also when its dates are out
\* of order.
C18_StructuralErrorsOnly ==
    /\ (TripValidated /\ ~TripStructurallySound(data)) =>
          /\ ~validation.valid
          /\ \A k \in 1 .. Len(validation.errors) :
                validation.errors[k].message # DateRangeError.message
    /\ (RecommendationValidated /\ ~RecStructurallySound(recommendation)) =>
          /\ ~validation.valid
          /\ \A k \in 1 .. Len(validation.errors) :
                validation.errors[k].field \notin DestinationDateFields

\* A submission with a structural violation whose endDate is also not after
\* its startDate was validated.
C18_UnsoundAndOutOfOrder ==
    /\ TripValidated
    /\ ~TripStructurallySound(data)
    /\ IsCalendarDate(data.startDate) /\ IsCalendarDate(data.endDate)
    /\ ~DateStrLess(data.startDate, data.endDate)
    /\ ~validation.valid

\* C19: a trip submission missing required fields is invalid and its result
\* holds exactly one error for each missing required field, together with
\* the errors of the other structural rules it violates (groupSize range,
\* destinations cardinality).
C19_EveryMissingFieldReported ==
    TripValidated =>
        /\ \A f \in {"destinations", "startDate", "endDate", "travelStyle", "groupSize"} :
              data[f].kind = "absent" =>
                  /\ ~validation.valid
                  /\ Cardinality({k \in 1 .. Len(validation.errors) :
                                     validation.errors[k].field = f}) = 1
        /\ (data.groupSize.kind = "integer" /\ data.groupSize.n \notin 1 .. 20) =>
              \E k \in 1 .. Len(validation.errors) :
                  validation.errors[k].field = "/groupSize"
        /\ (data.destinations.kind = "array"
              /\ Len(data.destinations.items) \notin 1 .. 5) =>
              \E k \in 1 .. Len(validation.errors) :
                  validation.errors[k].field = "/destinations"

\* A submission without startDate and endDate and with groupSize 25 got
\* three errors.
C19_SeveralMissing ==
    /\ TripValidated
    /\ data.startDate.kind = "absent" /\ data.endDate.kind = "absent"
    /\ data.groupSize = IntOf(25)
    /\ Len(validation.errors) = 3

\* The step in which a validator returns its first result for the envelope.
ValidationStep == validation = NoResult /\ validation' # NoResult

\* C15: a validation call leaves the envelope as it was: no field added,
\* removed or changed, whatever the result.
C15_EnvelopeUntouched ==
    [][ValidationStep => data' = data /\ recommendation' = recommendation]_vars

\* C16: validating the same envelope twice in a row gives the same result
\* (the same valid flag and the same errors in the same order), and the
\* result is the one the envelope alone determines, whatever earlier calls
\* left in the validators.
C16_SecondCallAgrees ==
    /\ revalidation # NoResult => revalidation = validation
    /\ TripValidated => validation = validateTripSubmissionData(data)
    /\ RecommendationValidated => validation = validateRecommendationData(recommendation)

\* A submission was found invalid twice in a row, by a validator that held
\* the errors of an earlier envelope before the first call.
C16_InvalidTwice ==
    /\ data # NoData
    /\ revalidation # NoResult
    /\ ~revalidation.valid
    /\ ajvErrors.recommendation = StaleErrors.recommendation

\* C17: a trip submission carrying an undeclared field is accepted and still
\* carries the field after validation; a recommendation carrying an
\* undeclared field is rejected or no longer carries it after validation.
C17_UnknownFields ==
    [][ValidationStep =>
        /\ (/\ data # NoData
            /\ data.extra.kind # "absent"
            /\ TripStructurallySound(data)
            /\ IsCalendarDate(data.startDate) /\ IsCalendarDate(data.endDate)
            /\ DateStrLess(data.startDate, data.endDate)) =>
               validation'.valid /\ data'.extra = data.extra
        /\ (recommendation # NoData /\ recommendation.extra.kind # "absent") =>
               ~validation'.valid \/ recommendation'.extra.kind = "absent"
      ]_vars

-----------------------------------------------------------------------------
(* Claims about the two HTTP functions (SpecApi).                           *)

\* The request of the step is an authenticated POST to submitTrip.
SubmitReceived(req) ==
    /\ "body" \in DOMAIN req
    /\ req.method = "POST" /\ req.bearer /\ req.token = "ok"

\* The step in which slot s's trips.add() commits, and the document it made.
AddStep(s) == inv[s].pc = "add" /\ inv'[s].pc = "set"
Added == trips'[CHOOSE id \in DOMAIN trips' : id \notin DOMAIN trips]

\* C11: a submission whose date string matches the pattern but names no
\* calendar day (month 13, day 45) is rejected with a date error when its
\* dates are parsed, and every trip document that is created holds, for
\* both dates, an instant on the calendar day the string names.
C11_OffCalendarRejected ==
    [][\A s \in Slots :
          /\ (/\ inv[s].pc = "get" /\ inv'[s].pc # "get"
              /\ ~(IsCalendarDate(inv[s].body.startDate)
                     /\ IsCalendarDate(inv[s].body.endDate))) =>
                 response'.res = 400 /\ inv'[s].pc = "idle"
          /\ AddStep(s) =>
                LET b == inv[s].body
                IN  /\ toLocaleDateString(Added.startDate.time, 0)
                           = <<b.startDate.y, b.startDate.m, b.startDate.d>>
                    /\ toLocaleDateString(Added.endDate.time, 0)
                           = <<b.endDate.y, b.endDate.m, b.endDate.d>>
      ]_vars

\* The group size the claim says is persisted for an input g.
Clamped(g) == IF g < MinGroupSize THEN MinGroupSize
              ELSE IF g > MaxGroupSize THEN MaxGroupSize ELSE g

\* C12: a submission that is valid apart from an integer groupSize outside
\* 1..20 is not rejected for it: it goes on to the store, and the document
\* created for it holds the group size clamped into 1..20 (0 as 1, 25 as 20,
\* 7 as 7).
C12_ClampedNotRejected ==
    [][/\ (SubmitReceived(request') /\ request'.body \in GroupSizeTrips) =>
              response'.res # 400
       /\ \A s \in Slots : (AddStep(s) /\ inv[s].body \in GroupSizeTrips) =>
              Added.groupSize = Clamped(inv[s].body.groupSize.n)
      ]_vars

\* C14: when an administrator's request names an existing trip and carries
\* a valid recommendation, the trip's status becomes 'completed', the
\* recommendation is stored on it, and the response is 200.
C14_AdminUpdateCompletes ==
    [][(/\ "tripId" \in DOMAIN request'
        /\ request'.method = "POST" /\ request'.bearer /\ request'.token = "ok"
        /\ request'.admin
        /\ request'.tripId \in DOMAIN trips
        /\ request'.recommendation # NoData
        /\ validateRecommendationData(request'.recommendation).valid) =>
           /\ response'.res = 200
           /\ trips'[request'.tripId].status = "completed"
           /\ "recommendation" \in DOMAIN trips'[request'.tripId]
      ]_vars

\* One of the two dates of the body is a string in another format than
\* YYYY-MM-DD.
LegacyDated(b) ==
    \/ b.startDate.kind = "string" /\ ~b.startDate.pat
    \/ b.endDate.kind = "string" /\ ~b.endDate.pat

\* C20: a submission with a date string such as '06/15/2024' is invalid for
\* validateTripSubmissionData, and submitTrip answers it with 400 in the
\* step that receives it: the invocation never reaches the store or the
\* date normalisation.
C20_LegacyDateRejected ==
    [][(SubmitReceived(request') /\ LegacyDated(request'.body)) =>
          /\ ~validateTripSubmissionData(request'.body).valid
          /\ response'.res = 400
          /\ inv' = inv /\ trips' = trips /\ userSubmissions' = userSubmissions
      ]_vars

\* A submission with startDate '06/15/2024' was received and answered 400.
C20_LegacyDateSubmitted ==
    /\ SubmitReceived(request)
    /\ request.body.startDate = LegacyDate(2024, 6, 15)
    /\ response.res = 400

-----------------------------------------------------------------------------
(* Claims about failures, ordering and frame effects of submitTrip.         *)

\* The step in which slot s's invocation ends in the catch block's 500.
FailedStep(s) == InFlight(s) /\ inv'[s].pc = "idle" /\ response'.res = 500

\* C21: when a store call of an invocation fails, the invocation ends
\* without success and no trip document it created remains in the trips
\* collection.
C21_FailureLeavesNothing ==
    [][\A s \in Slots : FailedStep(s) => inv[s].tripRef \notin DOMAIN trips']_vars

\* C22: an invocation that began after its identity was answered 429, on
\* the day of that 429, is not admitted: it does not go on from the limit
\* check to trips.add().
C22_RejectedForTheDay ==
    [][\A s \in Slots :
          (s \in rejection.late /\ inv[s].pc = "get") => inv'[s].pc # "add"]_vars

\* C24: the rate limit record is consulted only for a submission whose
\* dates have passed normalisation and the end-after-start check: no
\* invocation waiting for userSubmissionsRef.get() holds a body whose dates
\* fail them.
C24_DatesBeforeAdmission ==
    \A s \in Slots : inv[s].pc = "get" => ~DateError(inv[s].body)

\* The statuses submitTrip rejects a request with.
Rejections == {400, 401, 405, 429}

\* C26: a step in which submitTrip answers with a rejection changes neither
\* the trips collection nor any RateLimitRecord, and the invocation it ends
\* had written nothing before: it is answered in the stretch that received
\* it or in the one after the read of the record.
C26_RejectionWritesNothing ==
    [][response'.res \in Rejections =>
          /\ trips' = trips
          /\ userSubmissions' = userSubmissions
          /\ \/ inv' = inv
             \/ \E s \in Slots :
                   /\ inv[s].pc = "get" /\ inv[s].tripRef = NoTripRef
                   /\ inv' = [inv EXCEPT ![s] = IdleSlot]
      ]_vars

\* A submission was answered 429 and the record still counts 10.
C26_RateLimited ==
    /\ response.res = 429
    /\ \E u \in Uids : userSubmissions[u].submissionCount = DailyLimit

\* C27: every RateLimitRecord holds a submissionCount in 1..10, also when
\* invocations of one identity overlap and when the day rolls over.
C27_CountInRange ==
    \A u \in Uids :
        userSubmissions[u].exists => userSubmissions[u].submissionCount \in 1 .. DailyLimit

\* An invocation that read 9 is about to write its count over the 10 an
\* overlapping invocation of the same identity wrote, on a later day than
\* the one it began on.
C27_OverlappingAtLimit ==
    \E s \in Slots :
        /\ inv[s].pc = "set"
        /\ inv[s].doc.submissionCount = DailyLimit - 1
        /\ userSubmissions[inv[s].uid].submissionCount = DailyLimit
        /\ now > inv[s].today

\* C28: with one invocation at a time and no store failure, the
\* submissionCount a commit stores is the number of the identity's trips
\* admitted on the day of the lastSubmissionDate it stores.
C28_CountMatchesAdmissions ==
    [][\A s \in Slots :
          CommitStep(s) =>
              userSubmissions'[inv[s].uid].submissionCount
                 = Cardinality(TripsOn(inv[s].uid,
                                       userSubmissions'[inv[s].uid].lastSubmissionDate))
      ]_vars

-----------------------------------------------------------------------------
(* Claims about updateTripRecommendation and the persisted destinations.    *)

\* The request of the step went to updateTripRecommendation with a token
\* that verifyIdToken accepted.
UpdateReceived(req) ==
    /\ "tripId" \in DOMAIN req
    /\ req.method = "POST" /\ req.bearer /\ req.token = "ok"

\* C29: updateTripRecommendation changes a trip document only for a caller
\* with the admin claim and a recommendation that validateRecommendationData
\* accepts; a caller without the claim is answered 403, an administrator's
\* invalid recommendation 400, and both leave the store as it was.
C29_OnlyAdminAndValid ==
    [][UpdateReceived(request') =>
          /\ ~request'.admin =>
                response'.res = 403 /\ trips' = trips
          /\ (/\ request'.admin
              /\ request'.tripId # NoTripId
              /\ request'.recommendation # NoData
              /\ ~validateRecommendationData(request'.recommendation).valid) =>
                response'.res = 400 /\ trips' = trips
          /\ trips' # trips =>
                /\ request'.admin
                /\ request'.recommendation # NoData
                /\ validateRecommendationData(request'.recommendation).valid
          /\ userSubmissions' = userSubmissions
      ]_vars

\* A caller without the admin claim was answered 403 while a trip document
\* exists.
C29_NonAdminRefused ==
    /\ UpdateReceived(request)
    /\ ~request.admin
    /\ response.res = 403
    /\ DOMAIN trips # {}

\* C30: every trip document holds 1 to 5 destinations, each a non-empty
\* string without any of the characters < > " ' &.
C30_DestinationsSanitised ==
    \A id \in DOMAIN trips :
        LET ds == trips[id].destinations
        IN  /\ Len(ds) \in MinDestinations .. MaxDestinations
            /\ \A i \in 1 .. Len(ds) :
                   /\ ds[i] # <<>>
                   /\ \A k \in 1 .. Len(ds[i]) : ds[i][k] \notin Stripped

\* A trip was persisted with the blank that sanitisation left of '< <'.
C30_BlankLeft ==
    \E id \in DOMAIN trips : trips[id].destinations = << <<" ">> >>

\* How often initSendGrid has performed effect e on the mail client.
Performed(e) == Len(SelectSeq(sendGrid.events, LAMBDA x : x = e))

\* C25: over any sequence of initSendGrid calls the client is loaded at most
\* once and setApiKey is called at most once, sgMail holds the client exactly
\* when it was assigned once, and the assignment is the last thing an
\* initialisation does.
C25_InitialisedOnce ==
    /\ Performed("require") <= 1
    /\ Performed("setApiKey") <= 1
    /\ sendGrid.sgMail # "null" <=> Performed("assign") = 1
    /\ sendGrid.events # <<>> => sendGrid.events[Len(sendGrid.events)] = "assign"

\* C23: a trip whose status is 'completed' keeps that status in every step
\* of the handlers.
C23_CompletedIsTerminal ==
    [][\A id \in DOMAIN trips :
          trips[id].status = "completed" =>
              id \in DOMAIN trips' /\ trips'[id].status = "completed"]_vars

\* No trip document has the status 'completed': the only handler that sets
\* it is updateTripRecommendation, whose update never commits.
C23_NoneCompleted ==
    \A id \in DOMAIN trips : trips[id].status # "completed"

=============================================================================
